---- MODULE Spec2Model ----
(***************************************************************************)
(* Cubemap Creator (src/app/layout.tsx): the filename classifier, the six  *)
(* face slots and the handlers that mutate them, and the export routine    *)
(* that composites the slots into one canvas.                              *)
(*                                                                         *)
(* A file name is a sequence of one-character strings.  An image is the    *)
(* data URL the FileReader delivers for a file; it is identified with the  *)
(* file's content ("data").  A React state updater (setSlots(prev => ...)) *)
(* is an operator from the previous slot array to the next one, and the    *)
(* event that queues it is one atomic action.                              *)
(*                                                                         *)
(* Spec is the page with its handlers and callbacks.  FairSpec is Spec with *)
(* the decode callbacks of an export delivered fairly.  ClassifySpec       *)
(* applies the classifier alone to one file name.                          *)
(***************************************************************************)
EXTENDS Integers, Sequences, FiniteSets, Bags, TLC

\* ------------------------------------------------------------------ bounds
\* FileReaders started in a run that only uploads.
MaxReads == 3
\* FileReaders started in a run that also drags, clears or exports.
MaxEditReads == 2
\* FileReaders started in a run that fills all six slots.
MaxFillReads == 8
\* FileReaders started in a run that hands over more than six files.
MaxLongReads == 7
\* handleFileChange calls in one run.
MaxSingles == 1
\* Drags (mouse or touch) begun in one run.
MaxGestures == 1
\* clearSlot / clearAll calls in one run.
MaxClears == 1
\* Touch-end timeouts outstanding at once.
MaxTimers == 1
\* FileReaders started in a run that also selects a layout.
MaxLayoutReads == 1
\* exportCubemap calls in one run.
MaxExports == 1
\* Layout selections in one run.
MaxSelects == 1

\* ------------------------------------------------------------ basic values
null == "null"
\* draggedIndex / touchStartIndexRef hold null; indices are numbers.
NullIndex == -1
\* findIndex / findSlotIndex report "not found".
NotFound == -1
\* Array.from(files).slice(0, 6)
MaxCount == 6

CubeFace == {"top", "left", "front", "right", "back", "bottom"}
SlotIndex == 0..5

\* const INITIAL_SLOTS: FaceSlot[]
INITIAL_FACES == <<"top", "left", "front", "right", "back", "bottom">>
INITIAL_SLOTS == [i \in SlotIndex |-> [face |-> INITIAL_FACES[i + 1], image |-> null]]

Min(S) == CHOOSE x \in S : \A y \in S : x <= y
Max(S) == CHOOSE x \in S : \A y \in S : x >= y

\* --------------------------------------------------------- face classifier
UpperCase == <<"A","B","C","D","E","F","G","H","I","J","K","L","M",
               "N","O","P","Q","R","S","T","U","V","W","X","Y","Z">>
LowerCase == <<"a","b","c","d","e","f","g","h","i","j","k","l","m",
               "n","o","p","q","r","s","t","u","v","w","x","y","z">>

\* String.prototype.toLowerCase, one character
LowerChar(c) ==
    IF \E k \in 1..26 : UpperCase[k] = c
    THEN LowerCase[CHOOSE k \in 1..26 : UpperCase[k] = c]
    ELSE c
\* variant: the letter case is kept
toLowerCase_Identity(s) == s

toLowerCase(s) == [i \in 1..Len(s) |-> LowerChar(s[i])]

\* .replace(/\.[^.]+$/, ""): the last dot and what follows it, when at least
\* one character follows it
RemoveExtension(s) ==
    LET dots == {i \in 1..Len(s) : s[i] = "."}
    IN  IF dots = {} \/ Max(dots \cup {0}) = Len(s)
        THEN s
        ELSE SubSeq(s, 1, Max(dots) - 1)

\* [_\-\s]  (the white space class is represented by the space and the tab)
Boundary == {"_", "-", " ", "\t"}

MatchAt(s, i, tok) ==
    /\ i + Len(tok) - 1 <= Len(s)
    /\ SubSeq(s, i, i + Len(tok) - 1) = tok

\* variant: the two boundary groups are missing
Delimited_Unanchored(s, toks) ==
    \E tok \in toks : \E i \in 1..Len(s) : MatchAt(s, i, tok)

\* /(?:^|[_\-\s])TOKEN(?:[_\-\s]|$)/ for one of the token's spellings
Delimited(s, toks) ==
    \E tok \in toks : \E i \in 1..Len(s) :
        /\ MatchAt(s, i, tok)
        /\ (i = 1 \/ s[i - 1] \in Boundary)
        /\ (i + Len(tok) - 1 = Len(s) \/ s[i + Len(tok)] \in Boundary)

\* an unanchored /TOKEN/
Anywhere(s, toks) ==
    \E tok \in toks : \E i \in 1..Len(s) : MatchAt(s, i, tok)

\* pos(?:itive)?[_\-\s]?AXIS and neg(?:ative)?[_\-\s]?AXIS
SignAxis(short, long, axis) ==
    {pre \o sep \o <<axis>> :
        pre \in {short, long}, sep \in {<<>>} \cup {<<b>> : b \in Boundary}}
Pos(axis) == SignAxis(<<"p","o","s">>, <<"p","o","s","i","t","i","v","e">>, axis)
Neg(axis) == SignAxis(<<"n","e","g">>, <<"n","e","g","a","t","i","v","e">>, axis)

\* const patterns: { regex: RegExp; face: CubeFace }[]
patterns == <<
    [delimited |-> TRUE, toks |-> Pos("x"), face |-> "right"],
    [delimited |-> TRUE, toks |-> Neg("x"), face |-> "left"],
    [delimited |-> TRUE, toks |-> Pos("y"), face |-> "top"],
    [delimited |-> TRUE, toks |-> Neg("y"), face |-> "bottom"],
    [delimited |-> TRUE, toks |-> Pos("z"), face |-> "front"],
    [delimited |-> TRUE, toks |-> Neg("z"), face |-> "back"],
    [delimited |-> TRUE, toks |-> {<<"p","x">>}, face |-> "right"],
    [delimited |-> TRUE, toks |-> {<<"n","x">>}, face |-> "left"],
    [delimited |-> TRUE, toks |-> {<<"p","y">>}, face |-> "top"],
    [delimited |-> TRUE, toks |-> {<<"n","y">>}, face |-> "bottom"],
    [delimited |-> TRUE, toks |-> {<<"p","z">>}, face |-> "front"],
    [delimited |-> TRUE, toks |-> {<<"n","z">>}, face |-> "back"],
    [delimited |-> TRUE, toks |-> {<<"r","i","g","h","t">>}, face |-> "right"],
    [delimited |-> TRUE, toks |-> {<<"l","e","f","t">>}, face |-> "left"],
    [delimited |-> TRUE, toks |-> {<<"t","o","p">>, <<"u","p">>}, face |-> "top"],
    [delimited |-> TRUE, toks |-> {<<"b","o","t","t","o","m">>, <<"d","o","w","n">>},
     face |-> "bottom"],
    [delimited |-> TRUE, toks |-> {<<"f","r","o","n","t">>, <<"f","o","r","w","a","r","d">>},
     face |-> "front"],
    [delimited |-> TRUE, toks |-> {<<"b","a","c","k">>, <<"b","a","c","k","w","a","r","d">>},
     face |-> "back"],
    [delimited |-> FALSE, toks |-> {<<"+","x">>}, face |-> "right"],
    [delimited |-> FALSE, toks |-> {<<"-","x">>}, face |-> "left"],
    [delimited |-> FALSE, toks |-> {<<"+","y">>}, face |-> "top"],
    [delimited |-> FALSE, toks |-> {<<"-","y">>}, face |-> "bottom"],
    [delimited |-> FALSE, toks |-> {<<"+","z">>}, face |-> "front"],
    [delimited |-> FALSE, toks |-> {<<"-","z">>}, face |-> "back"] >>

\* regex.test(name)
RegexTest(p, name) ==
    IF p.delimited THEN Delimited(name, p.toks) ELSE Anywhere(name, p.toks)

\* variant: the face of the last pattern that matches
detectFaceFromFilename_Last(filename) ==
    LET name == RemoveExtension(toLowerCase(filename))
        hits == {k \in 1..Len(patterns) : RegexTest(patterns[k], name)}
    IN  IF hits = {} THEN null ELSE patterns[Max(hits)].face

\* function detectFaceFromFilename(filename): the face of the first pattern
\* that matches, or null
detectFaceFromFilename(filename) ==
    LET name == RemoveExtension(toLowerCase(filename))
        hits == {k \in 1..Len(patterns) : RegexTest(patterns[k], name)}
    IN  IF hits = {} THEN null ELSE patterns[Min(hits)].face


\* --------------------------------------------------------------- file names
\* README, "Supported Filename Patterns": the patterns documented per face
DocumentedPatterns == [f \in CubeFace |->
    CASE
         f = "right" ->
           {<<"p","x">>, <<"p","o","s","x">>, <<"+","x">>, <<"r","i","g","h","t">>}
      [] f = "left" ->
           {<<"n","x">>, <<"n","e","g","x">>, <<"-","x">>, <<"l","e","f","t">>}
      [] f = "top" ->
           {<<"p","y">>, <<"p","o","s","y">>, <<"+","y">>, <<"t","o","p">>, <<"u","p">>}
      [] f = "bottom" ->
           {<<"n","y">>, <<"n","e","g","y">>, <<"-","y">>, <<"b","o","t","t","o","m">>, <<"d","o","w","n">>}
      [] f = "front" ->
           {<<"p","z">>, <<"p","o","s","z">>, <<"+","z">>, <<"f","r","o","n","t">>, <<"f","o","r","w","a","r","d">>}
      [] f = "back" ->
           {<<"n","z">>, <<"n","e","g","z">>, <<"-","z">>, <<"b","a","c","k">>, <<"b","a","c","k","w","a","r","d">>}]

\* the same name in capitals, and with a capital first letter
UpperChar(c) ==
    IF \E k \in 1..26 : LowerCase[k] = c
    THEN UpperCase[CHOOSE k \in 1..26 : LowerCase[k] = c]
    ELSE c
toUpperCase(s) == [i \in 1..Len(s) |-> UpperChar(s[i])]
Capitalised(s) == [i \in 1..Len(s) |-> IF i = 1 THEN UpperChar(s[i]) ELSE s[i]]
CaseVariants(s) == {s, toUpperCase(s), Capitalised(s)}
Extensions == {<<>>, <<".","p","n","g">>, <<".","j","p","g">>, <<".","P","N","G">>}
DocumentedNames ==
    {cased \o ext : cased \in UNION {CaseVariants(tok) :
                                        tok \in UNION {DocumentedPatterns[f] : f \in CubeFace}},
                    ext \in Extensions}

Photo1 == <<"p","h","o","t","o","1">>
Photo1Png == <<"p","h","o","t","o","1",".","p","n","g">>
InboxPng == <<"i","n","b","o","x",".","p","n","g">>
MyBoxPxPng == <<"m","y","-","b","o","x","_","p","x",".","p","n","g">>
BackupPng == <<"b","a","c","k","u","p",".","p","n","g">>
ApxPng == <<"a","p","x",".","p","n","g">>
PosHyphenXPng == <<"p","o","s","-","x",".","p","n","g">>
PositiveXPng == <<"p","o","s","i","t","i","v","e","_","x",".","p","n","g">>
SkyTabPxPng == <<"s","k","y","\t","p","x",".","p","n","g">>
PxNxPng == <<"p","x","_","n","x",".","p","n","g">>
NegSpaceZJpg == <<"n","e","g"," ","z",".","j","p","g">>
PxTarGz == <<"p","x",".","t","a","r",".","g","z">>
OtherNames == {Photo1, Photo1Png, InboxPng, MyBoxPxPng,
               BackupPng, ApxPng, PosHyphenXPng, PositiveXPng,
               SkyTabPxPng, PxNxPng, NegSpaceZJpg, PxTarGz}

\* the names the classifier is applied to
Filenames == DocumentedNames \cup OtherNames


\* ------------------------------------------------------------------ files
\* A file: its name and the content the FileReader turns into a data URL.
SkyPx == [name |-> <<"s","k","y","_","p","x",".","p","n","g">>, data |-> "PX"]
SkyNx == [name |-> <<"s","k","y","_","n","x",".","p","n","g">>, data |-> "NX"]
SkyPy == [name |-> <<"s","k","y","_","p","y",".","p","n","g">>, data |-> "PY"]
RightJpg == [name |-> <<"R","I","G","H","T",".","J","P","G">>, data |-> "R"]
APng == [name |-> <<"a",".","p","n","g">>, data |-> "A"]
BPng == [name |-> <<"b",".","p","n","g">>, data |-> "B"]
CPng == [name |-> <<"c",".","p","n","g">>, data |-> "C"]
DPng == [name |-> <<"d",".","p","n","g">>, data |-> "D"]
EPng == [name |-> <<"e",".","p","n","g">>, data |-> "E"]
FPng == [name |-> <<"f",".","p","n","g">>, data |-> "F"]
\* a file list of seven files, the seventh with a face in its name
SevenFiles == <<APng, BPng, CPng, DPng, EPng, FPng, SkyPx>>
\* a file list of three files without face and one with a face
UnknownsAndPx == <<APng, BPng, CPng, SkyPx>>

\* The folders a run can draw its files from.
Folders == { {SkyPx, SkyNx, APng}, {SkyPx, RightJpg, BPng}, {APng, BPng, CPng} }
Files == UNION Folders \cup {DPng, EPng, FPng, SkyPy}

\* lists of n distinct files of a folder (a FileList holds a file once)
ListsOfLen(S, n) == {l \in [1..n -> S] : \A i, j \in 1..n : l[i] = l[j] => i = j}
\* every file list a folder can give
FileLists(S) == UNION {ListsOfLen(S, n) : n \in 1..Cardinality(S)}
\* the files of a set of lists
FilesOf(lists) == UNION {{l[k] : k \in 1..Len(l)} : l \in lists}

\* detectedMappings: each file with detectFaceFromFilename(file.name)
FaceOfFile == [f \in Files |-> detectFaceFromFilename(f.name)]

\* What one run may do, and with which files: a run uploads, or uploads less
\* and also drags, or clears, or exports, or selects a layout, clears and
\* exports.
NoBudget == [reads |-> 0, singles |-> 0, gestures |-> 0, clears |-> 0,
             exports |-> 0, selects |-> 0]
UploadBudget == [NoBudget EXCEPT !.reads = MaxReads, !.singles = MaxSingles]
DragBudget == [NoBudget EXCEPT !.reads = MaxEditReads, !.singles = MaxSingles,
                               !.gestures = MaxGestures]
ClearBudget == [NoBudget EXCEPT !.reads = MaxEditReads, !.singles = MaxSingles,
                                !.clears = MaxClears]
ExportBudget == [NoBudget EXCEPT !.reads = MaxEditReads, !.singles = MaxSingles,
                                 !.exports = MaxExports]
FillBudget == [NoBudget EXCEPT !.reads = MaxFillReads]
LongBudget == [NoBudget EXCEPT !.reads = MaxLongReads, !.singles = MaxSingles]
LayoutBudget == [NoBudget EXCEPT !.reads = MaxLayoutReads, !.singles = MaxSingles,
                                 !.clears = MaxClears,
                                 !.exports = MaxExports, !.selects = MaxSelects]
MixBudget == [NoBudget EXCEPT !.reads = MaxEditReads]
DragExportBudget == [NoBudget EXCEPT !.reads = MaxLayoutReads, !.gestures = MaxGestures,
                                     !.exports = MaxExports]
\* A run that fills all six slots hands over the same file list each time.
Sessions ==
    {[lists |-> FileLists(F), budget |-> UploadBudget] : F \in Folders} \cup
    {[lists |-> FileLists(F), budget |-> ClearBudget] : F \in Folders} \cup
    {[lists |-> {<<APng, BPng>>}, budget |-> FillBudget],
     [lists |-> {UnknownsAndPx}, budget |-> FillBudget],
     [lists |-> {SevenFiles}, budget |-> LongBudget],
     [lists |-> {<<SkyPx, SkyNx>>, <<APng>>}, budget |-> DragBudget],
     [lists |-> FileLists({APng, BPng, CPng}), budget |-> ExportBudget],
     [lists |-> FileLists({SkyPx, SkyNx, APng}), budget |-> LayoutBudget],
     [lists |-> {<<APng>>}, budget |-> DragExportBudget],
     [lists |-> {<<APng, SkyPy>>, <<SkyPy, APng>>}, budget |-> MixBudget]}

\* ------------------------------------------------------------------ state
\* The touch in progress: no finger is on the screen, or one is and its
\* touchstart recorded its slot as the source, or one is and its touchstart
\* returned at once (it began on a slot without image).
NoTouch == "none"
TouchAccepted == "accepted"
TouchRejected == "rejected"

VARIABLES
    fileLists,          \* the file lists the user can hand over (fixed in a run)
    budget,             \* what this run may do (fixed in a run)
    used,               \* what this run has done so far
    slots,              \* useState<FaceSlot[]>(INITIAL_SLOTS)
    draggedIndex,       \* useState<number | null>(null)
    touchStartIndexRef, \* useRef<number | null>(null)
    isDraggingTouch,    \* useRef(false)
    touchTimers,        \* setTimeout(..., 350) callbacks not yet run
    touchGesture,       \* the finger on the screen: none, or how its touch began
    pending,            \* FileReaders whose onload has not fired yet (a bag)
    lastBulk,           \* history: the latest handleBulkUpload call
    exportFormat,       \* useState<ExportFormat>("cross")
    exports,            \* the exportCubemap calls made, each with its closure
    alerts,             \* alert(...) calls so far
    downloads,          \* the files handed to the browser for download
    filename,           \* the name handed to detectFaceFromFilename alone
    detected            \* what detectFaceFromFilename returned for it

\* what no handler of the page changes
fixed == <<fileLists, budget, filename, detected>>
dragVars == <<draggedIndex, touchStartIndexRef, isDraggingTouch, touchTimers, touchGesture>>
exportVars == <<exportFormat, exports, alerts, downloads>>
vars == <<fixed, used, slots, dragVars, pending, lastBulk, exportVars>>

Can(what, n) == used[what] + n <= budget[what]
Spend(what, n) == [used EXCEPT ![what] = @ + n]

HasImage(slot) == slot.image # null

\* prev.findIndex((s, i) => !s.image && i >= fromIndex); with fromIndex 0 it
\* is prev.findIndex((s) => !s.image)
findIndex(prev, fromIndex) ==
    LET hits == {i \in SlotIndex : ~HasImage(prev[i]) /\ i >= fromIndex}
    IN  IF hits = {} THEN NotFound ELSE Min(hits)

\* ------------------------------------------------------- state updaters
\* variant: the image is written only into an empty slot
SetImageAt_IfEmpty(prev, index, image) ==
    [i \in SlotIndex |->
        IF i = index /\ ~HasImage(prev[i])
        THEN [prev[i] EXCEPT !.image = image] ELSE prev[i]]

\* prev.map((slot, i) => i === index ? { ...slot, image } : slot)
SetImageAt(prev, index, image) ==
    [i \in SlotIndex |-> IF i = index THEN [prev[i] EXCEPT !.image = image] ELSE prev[i]]

\* variant: the detected face is ignored, every file takes the first empty slot
PlaceDetected_Undetected(prev, face, image) ==
    LET hits == {i \in SlotIndex : ~HasImage(prev[i])}
    IN  IF hits = {} THEN prev
        ELSE [prev EXCEPT ![Min(hits)] = [prev[Min(hits)] EXCEPT !.image = image]]

\* variant: a file without face, finding no empty slot, takes the first slot
PlaceDetected_UnknownOverwrites(prev, face, image) ==
    IF face # null
    THEN [i \in SlotIndex |->
            IF prev[i].face = face THEN [prev[i] EXCEPT !.image = image] ELSE prev[i]]
    ELSE LET hits == {i \in SlotIndex : ~HasImage(prev[i])}
             target == IF hits = {} THEN 0 ELSE Min(hits)
         IN  [prev EXCEPT ![target] = [prev[target] EXCEPT !.image = image]]

\* variant: a detected face's slot is written only while it is empty
PlaceDetected_KeepFilled(prev, face, image) ==
    LET hits == {i \in SlotIndex :
                    /\ ~HasImage(prev[i])
                    /\ face # null => prev[i].face = face}
    IN  IF hits = {} THEN prev
        ELSE [prev EXCEPT ![Min(hits)] = [prev[Min(hits)] EXCEPT !.image = image]]

\* handleBulkUpload, detected branch: the updater of one reader.onload
PlaceDetected(prev, face, image) ==
    IF face # null
    THEN [i \in SlotIndex |->
            IF prev[i].face = face THEN [prev[i] EXCEPT !.image = image] ELSE prev[i]]
    ELSE LET emptyIndex == findIndex(prev, 0)
         IN  IF emptyIndex = NotFound THEN prev
             ELSE SetImageAt(prev, emptyIndex, image)

\* variant: the first empty slot is taken, whatever the file's index
PlaceSequential_FirstEmpty(prev, fileIndex, image) ==
    LET hits == {i \in SlotIndex : ~HasImage(prev[i])}
    IN  IF hits = {} THEN prev
        ELSE [prev EXCEPT ![Min(hits)] = [prev[Min(hits)] EXCEPT !.image = image]]

\* variant: with no empty slot from the file's index on, the search starts
\* again at the first slot
PlaceSequential_Wrap(prev, fileIndex, image) ==
    LET from == {i \in SlotIndex : ~HasImage(prev[i]) /\ i >= fileIndex}
        any == {i \in SlotIndex : ~HasImage(prev[i])}
    IN  IF from # {} THEN [prev EXCEPT ![Min(from)] = [prev[Min(from)] EXCEPT !.image = image]]
        ELSE IF any # {} THEN [prev EXCEPT ![Min(any)] = [prev[Min(any)] EXCEPT !.image = image]]
        ELSE prev

\* variant: the file of index i takes the (i+1)-th empty slot
PlaceSequential_NthEmpty(prev, fileIndex, image) ==
    LET empty == {i \in SlotIndex : ~HasImage(prev[i])}
        hits == {i \in empty : Cardinality({j \in empty : j < i}) = fileIndex}
    IN  [i \in SlotIndex |->
            IF i \in hits THEN [prev[i] EXCEPT !.image = image] ELSE prev[i]]

\* variant: the target slot is written without the test of its image
PlaceSequential_Overwrite(prev, fileIndex, image) ==
    LET hits == {i \in SlotIndex : ~HasImage(prev[i]) /\ i >= fileIndex}
        targetIndex == IF hits # {} THEN Min(hits) ELSE fileIndex
    IN  [prev EXCEPT ![targetIndex] = [prev[targetIndex] EXCEPT !.image = image]]

\* handleBulkUpload, sequential branch: the updater of one reader.onload
PlaceSequential(prev, fileIndex, image) ==
    LET emptyIndex == findIndex(prev, fileIndex)
        targetIndex == IF emptyIndex # NotFound THEN emptyIndex ELSE fileIndex
    IN  [i \in SlotIndex |->
            IF i = targetIndex /\ ~HasImage(prev[i])
            THEN [prev[i] EXCEPT !.image = image]
            ELSE prev[i]]

\* variant: the two slot objects are exchanged, faces included
SwapImages_WholeSlots(prev, a, b) ==
    [prev EXCEPT ![a] = prev[b], ![b] = prev[a]]

\* variant: the dragged image is read after the dragged slot was overwritten
SwapImages_Copy(prev, a, b) ==
    [prev EXCEPT ![a] = [prev[a] EXCEPT !.image = prev[b].image],
                 ![b] = [prev[b] EXCEPT !.image = prev[b].image]]

\* handleDrop / handleTouchEnd: the updater that exchanges two images
SwapImages(prev, a, b) ==
    LET draggedImage == prev[a].image
        newSlots == [prev EXCEPT ![a] = [prev[a] EXCEPT !.image = prev[b].image]]
    IN  [newSlots EXCEPT ![b] = [newSlots[b] EXCEPT !.image = draggedImage]]

\* variant: every slot is emptied
ClearAt_All(prev, index) ==
    [i \in SlotIndex |-> [prev[i] EXCEPT !.image = null]]

\* clearSlot: prev.map((slot, i) => i === index ? { ...slot, image: null } : slot)
ClearAt(prev, index) == SetImageAt(prev, index, null)

\* ------------------------------------------------------------- file reads
\* One FileReader: the updater its onload will run.  "call" is the number of
\* readers started before the call that made it, which orders the calls.
SingleRead(index, file, call) ==
    [kind |-> "single", index |-> index, face |-> null, image |-> file.data, call |-> call]
DetectedRead(face, file, call) ==
    [kind |-> "detected", index |-> NotFound, face |-> face, image |-> file.data, call |-> call]
SequentialRead(fileIndex, file, call) ==
    [kind |-> "sequential", index |-> fileIndex, face |-> null, image |-> file.data, call |-> call]

\* variant: the list is not cut
fileArray_All(files) == files

\* Array.from(files).slice(0, 6)
fileArray(files) == SubSeq(files, 1, IF Len(files) < MaxCount THEN Len(files) ELSE MaxCount)

\* const hasDetectedFaces = detectedMappings.some(m => m.face !== null)
hasDetectedFaces(files) ==
    \E k \in 1..Len(fileArray(files)) : FaceOfFile[fileArray(files)[k]] # null

\* the readers one handleBulkUpload call starts
BulkReads(files, call) ==
    IF hasDetectedFaces(files)
    THEN [k \in 1..Len(fileArray(files)) |->
            DetectedRead(FaceOfFile[fileArray(files)[k]], fileArray(files)[k], call)]
    ELSE [k \in 1..Len(fileArray(files)) |->
            SequentialRead(k - 1, fileArray(files)[k], call)]

RECURSIVE SeqToBag(_)
SeqToBag(s) == IF Len(s) = 0 THEN EmptyBag ELSE SetToBag({Head(s)}) (+) SeqToBag(Tail(s))

NoBulk == [files |-> <<>>, start |-> INITIAL_SLOTS, alone |-> FALSE]
Disturbed == [lastBulk EXCEPT !.alone = FALSE]

\* ------------------------------------------------------------------ init
Init ==
    /\ \E s \in Sessions : fileLists = s.lists /\ budget = s.budget
    /\ used = NoBudget
    /\ slots = INITIAL_SLOTS
    /\ draggedIndex = NullIndex
    /\ touchStartIndexRef = NullIndex
    /\ isDraggingTouch = FALSE
    /\ touchTimers = 0
    /\ touchGesture = NoTouch
    /\ pending = EmptyBag
    /\ lastBulk = NoBulk
    /\ exportFormat = "cross"
    /\ exports = <<>>
    /\ alerts = 0
    /\ downloads = <<>>
    /\ filename = <<>>
    /\ detected = null

\* -------------------------------------------------------------- handlers
\* handleFileChange(index, file): start one FileReader
handleFileChange(index, file) ==
    /\ Can("reads", 1) /\ Can("singles", 1)
    /\ pending' = pending (+) SetToBag({SingleRead(index, file, used.reads)})
    /\ used' = [used EXCEPT !.reads = @ + 1, !.singles = @ + 1]
    /\ lastBulk' = Disturbed

\* handleBulkUpload(files): classify, choose the mode, start the readers
handleBulkUpload(files) ==
    /\ Can("reads", Len(fileArray(files)))
    /\ pending' = pending (+) SeqToBag(BulkReads(files, used.reads))
    /\ used' = Spend("reads", Len(fileArray(files)))
    /\ lastBulk' = [files |-> fileArray(files), start |-> slots,
                    alone |-> pending = EmptyBag]

\* handleFileChange(index, files[0]) and then, in the same event,
\* handleBulkUpload(files)
FileChangeThenBulk(index, files) ==
    /\ Can("reads", 1 + Len(fileArray(files))) /\ Can("singles", 1)
    /\ pending' = pending (+) SetToBag({SingleRead(index, files[1], used.reads)})
                          (+) SeqToBag(BulkReads(files, used.reads + 1))
    /\ used' = [used EXCEPT !.reads = @ + 1 + Len(fileArray(files)), !.singles = @ + 1]
    /\ lastBulk' = [files |-> fileArray(files), start |-> slots, alone |-> FALSE]

\* onClick of a slot: handleSlotClick(index); unless a touch drag just ended
\* it opens the slot's file input, whose onChange calls handleFileChange
handleSlotClick(index, file) ==
    \/ /\ isDraggingTouch
       /\ isDraggingTouch' = FALSE
       /\ UNCHANGED <<fixed, used, slots, draggedIndex, touchStartIndexRef, touchTimers,
                      touchGesture, pending, lastBulk, exportVars>>
    \/ /\ ~isDraggingTouch
       /\ handleFileChange(index, file)
       /\ UNCHANGED <<fixed, slots, dragVars, exportVars>>

\* onChange of the bulk file input
BulkInputChange(files) ==
    /\ handleBulkUpload(files)
    /\ UNCHANGED <<fixed, slots, dragVars, exportVars>>

\* handleDragStart(e, index): on a slot without image the drag is prevented
\* and nothing is recorded
handleDragStart(index) ==
    \/ /\ ~HasImage(slots[index])
       /\ budget.gestures > 0
       /\ UNCHANGED vars
    \/ /\ HasImage(slots[index])
       /\ Can("gestures", 1)
       /\ used' = Spend("gestures", 1)
       /\ draggedIndex' = index
       /\ UNCHANGED <<fixed, slots, touchStartIndexRef, isDraggingTouch, touchTimers,
                      touchGesture, pending, lastBulk, exportVars>>

\* handleDragEnd
handleDragEnd ==
    /\ draggedIndex' = NullIndex
    /\ UNCHANGED <<fixed, used, slots, touchStartIndexRef, isDraggingTouch, touchTimers,
                   touchGesture, pending, lastBulk, exportVars>>

\* A drop on slot targetIndex: handleDrop(e, targetIndex), and then, the
\* event bubbling to the main container, handleGlobalDrop(e).
handleDrop(targetIndex, files) ==
    \/ /\ Len(files) = 1
       /\ handleFileChange(targetIndex, files[1])
       /\ draggedIndex' = NullIndex
       /\ UNCHANGED <<fixed, slots, touchStartIndexRef, isDraggingTouch, touchTimers,
                      touchGesture, exportVars>>
    \/ /\ Len(files) > 1
       /\ FileChangeThenBulk(targetIndex, files)
       /\ draggedIndex' = NullIndex
       /\ UNCHANGED <<fixed, slots, touchStartIndexRef, isDraggingTouch, touchTimers,
                      touchGesture, exportVars>>
    \/ /\ Len(files) = 0
       /\ draggedIndex # NullIndex /\ draggedIndex # targetIndex
       /\ slots' = SwapImages(slots, draggedIndex, targetIndex)
       /\ draggedIndex' = NullIndex
       /\ lastBulk' = Disturbed
       /\ UNCHANGED <<fixed, used, touchStartIndexRef, isDraggingTouch, touchTimers,
                      touchGesture, pending, exportVars>>
    \/ /\ Len(files) = 0
       /\ draggedIndex = targetIndex
       /\ draggedIndex' = NullIndex
       /\ UNCHANGED <<fixed, used, slots, touchStartIndexRef, isDraggingTouch, touchTimers,
                      touchGesture, pending, lastBulk, exportVars>>

\* A drop outside every slot: handleGlobalDrop(e) alone
handleGlobalDrop(files) ==
    /\ Len(files) > 1
    /\ handleBulkUpload(files)
    /\ UNCHANGED <<fixed, slots, dragVars, exportVars>>

\* handleTouchStart, a finger put on slot index: on a slot without image the
\* handler returns at once (as it does for a touch outside the slots), else
\* it records the slot as the source
handleTouchStart(index) ==
    /\ touchGesture = NoTouch
    /\ \/ /\ ~HasImage(slots[index])
          /\ budget.gestures > 0
          /\ touchGesture' = TouchRejected
          /\ UNCHANGED <<fixed, used, slots, draggedIndex, touchStartIndexRef,
                         isDraggingTouch, touchTimers, pending, lastBulk, exportVars>>
       \/ /\ HasImage(slots[index])
          /\ Can("gestures", 1)
          /\ used' = Spend("gestures", 1)
          /\ isDraggingTouch' = FALSE
          /\ touchStartIndexRef' = index
          /\ draggedIndex' = index
          /\ touchGesture' = TouchAccepted
          /\ UNCHANGED <<fixed, slots, touchTimers, pending, lastBulk, exportVars>>

\* handleTouchMove, the finger moving (without a recorded source it returns)
handleTouchMove ==
    /\ touchGesture # NoTouch
    /\ touchStartIndexRef # NullIndex
    /\ isDraggingTouch' = TRUE
    /\ UNCHANGED <<fixed, used, slots, draggedIndex, touchStartIndexRef, touchTimers,
                   touchGesture, pending, lastBulk, exportVars>>

\* handleTouchEnd, the finger lifted over slot targetIndex (NotFound: over no
\* slot); without a recorded source it returns
handleTouchEnd(targetIndex) ==
    /\ touchGesture # NoTouch
    /\ touchGesture' = NoTouch
    /\ \/ /\ touchStartIndexRef = NullIndex
          /\ UNCHANGED <<fixed, used, slots, draggedIndex, touchStartIndexRef,
                         isDraggingTouch, touchTimers, pending, lastBulk, exportVars>>
       \/ /\ touchStartIndexRef # NullIndex
          /\ touchTimers < MaxTimers
          /\ IF targetIndex # NotFound /\ isDraggingTouch /\ touchStartIndexRef # targetIndex
             THEN /\ slots' = SwapImages(slots, touchStartIndexRef, targetIndex)
                  /\ lastBulk' = Disturbed
             ELSE UNCHANGED <<slots, lastBulk>>
          /\ touchStartIndexRef' = NullIndex
          /\ draggedIndex' = NullIndex
          /\ touchTimers' = touchTimers + 1
          /\ UNCHANGED <<fixed, used, isDraggingTouch, pending, exportVars>>

\* The browser cancels the touch (touchcancel): the page listens to
\* touchstart, touchmove and touchend only, so no handler runs.
TouchCancel ==
    /\ touchGesture # NoTouch
    /\ touchGesture' = NoTouch
    /\ UNCHANGED <<fixed, used, slots, draggedIndex, touchStartIndexRef, isDraggingTouch,
                   touchTimers, pending, lastBulk, exportVars>>

\* the setTimeout(() => { isDraggingTouch.current = false }, 350) callback
TouchTimeout ==
    /\ touchTimers > 0
    /\ touchTimers' = touchTimers - 1
    /\ isDraggingTouch' = FALSE
    /\ UNCHANGED <<fixed, used, slots, draggedIndex, touchStartIndexRef, touchGesture,
                   pending, lastBulk, exportVars>>

\* clearSlot(index, e): the remove button of a filled slot
clearSlot(index) ==
    /\ HasImage(slots[index])
    /\ Can("clears", 1)
    /\ used' = Spend("clears", 1)
    /\ slots' = ClearAt(slots, index)
    /\ lastBulk' = Disturbed
    /\ UNCHANGED <<fixed, dragVars, pending, exportVars>>

\* variant: the clear also drops the FileReaders still reading
clearAll_Cancels ==
    /\ Can("clears", 1)
    /\ used' = Spend("clears", 1)
    /\ slots' = INITIAL_SLOTS
    /\ pending' = EmptyBag
    /\ lastBulk' = Disturbed
    /\ UNCHANGED <<fixed, dragVars, exportVars>>

\* clearAll
clearAll ==
    /\ Can("clears", 1)
    /\ used' = Spend("clears", 1)
    /\ slots' = INITIAL_SLOTS
    /\ lastBulk' = Disturbed
    /\ UNCHANGED <<fixed, dragVars, pending, exportVars>>

\* ------------------------------------------------- reader.onload callbacks
Remove(r) == pending (-) SetToBag({r})

\* handleFileChange's reader.onload
SingleLoaded(r) ==
    /\ BagIn(r, pending) /\ r.kind = "single"
    /\ slots' = SetImageAt(slots, r.index, r.image)
    /\ pending' = Remove(r)
    /\ UNCHANGED <<fixed, used, dragVars, lastBulk, exportVars>>

\* handleBulkUpload's reader.onload, detected branch
DetectedLoaded(r) ==
    /\ BagIn(r, pending) /\ r.kind = "detected"
    /\ slots' = PlaceDetected(slots, r.face, r.image)
    /\ pending' = Remove(r)
    /\ UNCHANGED <<fixed, used, dragVars, lastBulk, exportVars>>

\* handleBulkUpload's reader.onload, sequential branch
SequentialLoaded(r) ==
    /\ BagIn(r, pending) /\ r.kind = "sequential"
    /\ slots' = PlaceSequential(slots, r.index, r.image)
    /\ pending' = Remove(r)
    /\ UNCHANGED <<fixed, used, dragVars, lastBulk, exportVars>>


\* ---------------------------------------------------------------- export
\* const FACE_SIZE = 512
FACE_SIZE == 512

ExportFormat == {"cross", "cross-vertical", "strip-horizontal", "strip-vertical",
                 "grid-3x2", "grid-2x3"}

Positions(top, left, front, right, back, bottom) ==
    [f \in CubeFace |->
        LET p == CASE f = "top" -> top [] f = "left" -> left [] f = "front" -> front
                   [] f = "right" -> right [] f = "back" -> back [] f = "bottom" -> bottom
        IN  [x |-> p[1], y |-> p[2]]]

\* variant: in every layout "back" has the cell of "right"
EXPORT_FORMATS_Overlap == [k \in ExportFormat |->
    [name |-> "Cross (Horizontal)", width |-> 4, height |-> 3,
     positions |-> Positions(<<1,0>>, <<0,1>>, <<1,1>>, <<2,1>>, <<2,1>>, <<1,2>>)]]

\* const EXPORT_FORMATS: Record<ExportFormat, FormatConfig>
EXPORT_FORMATS == [k \in ExportFormat |->
    CASE k = "cross" ->
           [name |-> "Cross (Horizontal)", width |-> 4, height |-> 3,
            positions |-> Positions(<<1,0>>, <<0,1>>, <<1,1>>, <<2,1>>, <<3,1>>, <<1,2>>)]
      [] k = "cross-vertical" ->
           [name |-> "Cross (Vertical)", width |-> 3, height |-> 4,
            positions |-> Positions(<<1,0>>, <<0,1>>, <<1,1>>, <<2,1>>, <<1,3>>, <<1,2>>)]
      [] k = "strip-horizontal" ->
           [name |-> "Strip (Horizontal)", width |-> 6, height |-> 1,
            positions |-> Positions(<<2,0>>, <<1,0>>, <<4,0>>, <<0,0>>, <<5,0>>, <<3,0>>)]
      [] k = "strip-vertical" ->
           [name |-> "Strip (Vertical)", width |-> 1, height |-> 6,
            positions |-> Positions(<<0,2>>, <<0,1>>, <<0,4>>, <<0,0>>, <<0,5>>, <<0,3>>)]
      [] k = "grid-3x2" ->
           [name |-> "Grid (3x2)", width |-> 3, height |-> 2,
            positions |-> Positions(<<2,0>>, <<1,0>>, <<1,1>>, <<0,0>>, <<2,1>>, <<0,1>>)]
      [] k = "grid-2x3" ->
           [name |-> "Grid (2x3)", width |-> 2, height |-> 3,
            positions |-> Positions(<<0,1>>, <<1,0>>, <<0,2>>, <<0,0>>, <<1,2>>, <<1,1>>)]]

\* The canvas: its size in pixels and its content.  Every drawImage of the
\* program covers whole FACE_SIZE squares, so the content is kept per square
\* (column, row); null is transparent.
\* document.createElement("canvas"), width, height, ctx.clearRect(...)
NewCanvas(format) ==
    [width |-> FACE_SIZE * format.width,
     height |-> FACE_SIZE * format.height,
     cells |-> [c \in (0..(format.width - 1)) \X (0..(format.height - 1)) |-> null]]

\* variant: the two coordinates of the destination are exchanged
drawImage_Transposed(canvas, img, dx, dy, dw, dh) ==
    [canvas EXCEPT !.cells =
        [c \in DOMAIN canvas.cells |->
            IF /\ dy <= c[1] * FACE_SIZE /\ (c[1] + 1) * FACE_SIZE <= dy + dw
               /\ dx <= c[2] * FACE_SIZE /\ (c[2] + 1) * FACE_SIZE <= dx + dh
            THEN img ELSE canvas.cells[c]]]

\* ctx.drawImage(img, dx, dy, dw, dh): the image stretched over the rectangle
drawImage(canvas, img, dx, dy, dw, dh) ==
    [canvas EXCEPT !.cells =
        [c \in DOMAIN canvas.cells |->
            IF /\ dx <= c[1] * FACE_SIZE /\ (c[1] + 1) * FACE_SIZE <= dx + dw
               /\ dy <= c[2] * FACE_SIZE /\ (c[2] + 1) * FACE_SIZE <= dy + dh
            THEN img ELSE canvas.cells[c]]]

\* const totalImages = slots.filter((s) => s.image).length
totalImages(s) == Cardinality({i \in SlotIndex : HasImage(s[i])})

\* variant: the test of the count is missing
NothingToExport_Never(s) == FALSE

\* if (totalImages === 0) { alert(...); return; }
NothingToExport(s) == totalImages(s) = 0

\* variant: the first image drawn starts the encoding
AllLoaded_First(imagesLoaded, total) == imagesLoaded >= 1

\* if (imagesLoaded === totalImages) canvas.toBlob(...)
AllLoaded(imagesLoaded, total) == imagesLoaded = total

\* a.download = `cubemap-${exportFormat}.png`
DownloadName(format) == <<"cubemap-", format, ".png">>

\* The effects of the synchronous part of exportCubemap, in the order of its
\* statements: the canvas is created and sized, its context asked for and
\* cleared, then the count is tested, then each filled slot's image is set
\* to decode.
SyncEffects(s, phase) ==
    <<"createCanvas", "getContext">> \o
    (IF phase = "noctx" THEN <<>>
     ELSE <<"clearRect">> \o
          (IF phase = "alerted" THEN <<"alert">>
           ELSE [n \in 1..totalImages(s) |-> "decode"]))

\* One exportCubemap call: what its closures hold.
NewExport(s, formatKey, phase) ==
    [exportFormat |-> formatKey,
     effects |-> SyncEffects(s, phase),
     slots |-> s,
     canvas |-> NewCanvas(EXPORT_FORMATS[formatKey]),
     imagesLoaded |-> 0,
     totalImages |-> totalImages(s),
     loading |-> IF phase = "loading" THEN {i \in SlotIndex : HasImage(s[i])} ELSE {},
     failed |-> {},
     phase |-> phase]

\* exportCubemap(): the canvas is created and cleared; without filled slots
\* the call alerts and returns, otherwise every filled slot's image is set
\* to decode.  (No 2d context: the call returns right after the canvas.)
\* The Export button is disabled while no slot is filled; the function is
\* taken here as callable in every state, as its own test of the count
\* supposes.
exportCubemap ==
    /\ Can("exports", 1)
    /\ used' = Spend("exports", 1)
    /\ \/ /\ exports' = Append(exports, NewExport(slots, exportFormat, "noctx"))
          /\ UNCHANGED alerts
       \/ /\ NothingToExport(slots)
          /\ exports' = Append(exports, NewExport(slots, exportFormat, "alerted"))
          /\ alerts' = alerts + 1
       \/ /\ ~NothingToExport(slots)
          /\ exports' = Append(exports, NewExport(slots, exportFormat, "loading"))
          /\ UNCHANGED alerts
    /\ UNCHANGED <<fixed, slots, dragVars, pending, lastBulk, exportFormat, downloads>>

\* variant: the callback reads the slots and the layout of the page as they
\* are when it runs
ImageLoaded_Live(k, i) ==
    LET e == exports[k]
        format == EXPORT_FORMATS[exportFormat]
        pos == format.positions[slots[i].face]
        drawn == drawImage(e.canvas, slots[i].image,
                           pos.x * FACE_SIZE, pos.y * FACE_SIZE, FACE_SIZE, FACE_SIZE)
    IN  /\ e.phase = "loading" /\ i \in e.loading
        /\ exports' = [exports EXCEPT ![k] =
              [e EXCEPT !.canvas = drawn,
                        !.imagesLoaded = e.imagesLoaded + 1,
                        !.loading = e.loading \ {i},
                        !.phase = IF AllLoaded(e.imagesLoaded + 1, e.totalImages)
                                  THEN "encoding" ELSE "loading"]]
        /\ UNCHANGED <<fixed, used, slots, dragVars, pending, lastBulk, exportFormat, alerts,
                       downloads>>

\* img.onload of the image of slot i, in export k
ImageLoaded(k, i) ==
    LET e == exports[k]
        format == EXPORT_FORMATS[e.exportFormat]
        pos == format.positions[e.slots[i].face]
        drawn == drawImage(e.canvas, e.slots[i].image,
                           pos.x * FACE_SIZE, pos.y * FACE_SIZE, FACE_SIZE, FACE_SIZE)
    IN  /\ e.phase = "loading" /\ i \in e.loading
        /\ exports' = [exports EXCEPT ![k] =
              [e EXCEPT !.canvas = drawn,
                        !.imagesLoaded = e.imagesLoaded + 1,
                        !.loading = e.loading \ {i},
                        !.phase = IF AllLoaded(e.imagesLoaded + 1, e.totalImages)
                                  THEN "encoding" ELSE "loading"]]
        /\ UNCHANGED <<fixed, used, slots, dragVars, pending, lastBulk, exportFormat, alerts,
                       downloads>>

\* variant: a failed decode is counted like a loaded image, nothing is drawn
ImageFailed_Counted(k, i) ==
    LET e == exports[k]
    IN  /\ e.phase = "loading" /\ i \in e.loading
        /\ exports' = [exports EXCEPT ![k] =
              [e EXCEPT !.loading = e.loading \ {i}, !.failed = e.failed \cup {i},
                        !.imagesLoaded = e.imagesLoaded + 1,
                        !.phase = IF AllLoaded(e.imagesLoaded + 1, e.totalImages)
                                  THEN "encoding" ELSE "loading"]]
        /\ UNCHANGED <<fixed, used, slots, dragVars, pending, lastBulk, exportFormat, alerts,
                       downloads>>

\* the image of slot i, in export k, cannot be decoded: its onload never fires
ImageFailed(k, i) ==
    LET e == exports[k]
    IN  /\ e.phase = "loading" /\ i \in e.loading
        /\ exports' = [exports EXCEPT ![k] =
              [e EXCEPT !.loading = e.loading \ {i}, !.failed = e.failed \cup {i}]]
        /\ UNCHANGED <<fixed, used, slots, dragVars, pending, lastBulk, exportFormat, alerts,
                       downloads>>

\* the canvas.toBlob callback of export k, with a blob: the download
BlobReady(k) ==
    /\ exports[k].phase = "encoding"
    /\ exports' = [exports EXCEPT ![k].phase = "downloaded"]
    /\ downloads' = Append(downloads,
          [export |-> k, download |-> DownloadName(exports[k].exportFormat),
           canvas |-> exports[k].canvas])
    /\ UNCHANGED <<fixed, used, slots, dragVars, pending, lastBulk, exportFormat, alerts>>

\* the canvas.toBlob callback of export k, without a blob: if (!blob) return
BlobNull(k) ==
    /\ exports[k].phase = "encoding"
    /\ exports' = [exports EXCEPT ![k].phase = "noblob"]
    /\ UNCHANGED <<fixed, used, slots, dragVars, pending, lastBulk, exportFormat, alerts,
                   downloads>>

\* onChange of the layout select: setExportFormat(e.target.value)
setExportFormat(value) ==
    /\ value # exportFormat
    /\ Can("selects", 1)
    /\ used' = Spend("selects", 1)
    /\ exportFormat' = value
    /\ UNCHANGED <<fixed, slots, dragVars, pending, lastBulk, exports, alerts, downloads>>

\* ------------------------------------------------------------------- next
Next ==
    \/ \E i \in SlotIndex, f \in FilesOf(fileLists) : handleSlotClick(i, f)
    \/ \E fl \in fileLists : BulkInputChange(fl)
    \/ \E i \in SlotIndex : handleDragStart(i)
    \/ handleDragEnd
    \/ \E i \in SlotIndex, fl \in fileLists \cup {<<>>} : handleDrop(i, fl)
    \/ \E fl \in fileLists : handleGlobalDrop(fl)
    \/ \E i \in SlotIndex : handleTouchStart(i)
    \/ handleTouchMove
    \/ \E t \in SlotIndex \cup {NotFound} : handleTouchEnd(t)
    \/ TouchCancel
    \/ TouchTimeout
    \/ \E i \in SlotIndex : clearSlot(i)
    \/ clearAll
    \/ \E r \in BagToSet(pending) : SingleLoaded(r)
    \/ \E r \in BagToSet(pending) : DetectedLoaded(r)
    \/ \E r \in BagToSet(pending) : SequentialLoaded(r)
    \/ exportCubemap
    \/ \E k \in DOMAIN exports, i \in SlotIndex : ImageLoaded(k, i)
    \/ \E k \in DOMAIN exports, i \in SlotIndex : ImageFailed(k, i)
    \/ \E k \in DOMAIN exports : BlobReady(k)
    \/ \E k \in DOMAIN exports : BlobNull(k)
    \/ \E value \in ExportFormat : setExportFormat(value)

Spec == Init /\ [][Next]_vars

\* The page under fair delivery of the decode callbacks: the onload of an
\* image that is loading, and stays so, is delivered in the end.
DecodesDelivered ==
    \A k \in 1..MaxExports : \A i \in SlotIndex :
        WF_vars(k \in DOMAIN exports /\ ImageLoaded(k, i))

FairSpec == Init /\ [][Next]_vars /\ DecodesDelivered

\* ------------------------------------------- the classifier on its own
\* detectFaceFromFilename is a pure function: here it is applied once to one
\* name of Filenames, the page left as it is constructed.
Unclassified == "unclassified"

ClassifyInit ==
    /\ filename \in Filenames
    /\ detected = Unclassified
    /\ fileLists = {} /\ budget = NoBudget /\ used = NoBudget
    /\ slots = INITIAL_SLOTS
    /\ draggedIndex = NullIndex /\ touchStartIndexRef = NullIndex
    /\ isDraggingTouch = FALSE /\ touchTimers = 0 /\ touchGesture = NoTouch
    /\ pending = EmptyBag /\ lastBulk = NoBulk
    /\ exportFormat = "cross" /\ exports = <<>> /\ alerts = 0 /\ downloads = <<>>

\* detectFaceFromFilename(file.name)
Classify ==
    /\ detected = Unclassified
    /\ detected' = detectFaceFromFilename(filename)
    /\ UNCHANGED <<fileLists, budget, filename, used, slots, dragVars, pending, lastBulk,
                   exportVars>>

ClassifyNext == Classify

ClassifySpec == ClassifyInit /\ [][ClassifyNext]_vars


\* ================================================================ claims
\* the index of a face's slot in the canonical order
FaceIndex(face) == CHOOSE i \in SlotIndex : INITIAL_FACES[i + 1] = face
Filled(s) == {i \in SlotIndex : HasImage(s[i])}
AllReadsDone == pending = EmptyBag

\* C1: after any interleaving of the handlers and callbacks the slot
\* collection has exactly six slots whose faces are, in order, top, left,
\* front, right, back, bottom: no operation changes a face.
C1_FacesFixed ==
    /\ DOMAIN slots = SlotIndex
    /\ \A i \in SlotIndex : slots[i].face = INITIAL_FACES[i + 1]
    /\ Cardinality({slots[i].face : i \in SlotIndex}) = 6

\* the image detected as "right" sits, after a swap, in the slot of "left",
\* and the one detected as "left" in the slot of "right"
C1_Witness ==
    /\ used.gestures > 0
    /\ slots[1].image = "PX" /\ slots[3].image = "NX"

\* C2: in a bulk upload with a detected face, a file classified to face F
\* writes F's slot when its read completes, whatever the slot held; and when
\* the call ran alone, every face named by exactly one of its files ends
\* holding that file's image, whatever the list order and completion order.
C2_DetectedOverwrites ==
    /\ [][\A r \in BagToSet(pending) :
            (DetectedLoaded(r) /\ r.face # null)
                => slots'[FaceIndex(r.face)].image = r.image]_vars
    /\ [](  (lastBulk.alone /\ AllReadsDone)
            => \A k \in 1..Len(lastBulk.files) :
                 LET f == FaceOfFile[lastBulk.files[k]]
                 IN  (/\ f # null
                      /\ \A j \in 1..Len(lastBulk.files) :
                            j # k => FaceOfFile[lastBulk.files[j]] # f)
                     => slots[FaceIndex(f)].image = lastBulk.files[k].data)

\* sky_nx.png listed before sky_px.png, slot "right" filled with another
\* image before the call: both faces hold their file's image
C2_Witness ==
    /\ lastBulk.alone /\ AllReadsDone
    /\ lastBulk.files = <<SkyNx, SkyPx>>
    /\ lastBulk.start[3].image = "A"
    /\ slots[3].image = "PX" /\ slots[1].image = "NX"

\* C3: a bulk upload of n files, none classified, into all-empty slots and
\* alone: once all reads are done the i-th file is in the i-th slot and the
\* other slots are empty, under every order of completions.
C3_SequentialIntoEmpty ==
    (/\ lastBulk.alone /\ AllReadsDone
     /\ Len(lastBulk.files) > 0
     /\ ~hasDetectedFaces(lastBulk.files)
     /\ lastBulk.start = INITIAL_SLOTS)
    => \A i \in SlotIndex :
          slots[i].image = IF i < Len(lastBulk.files)
                           THEN lastBulk.files[i + 1].data ELSE null

C3_Witness ==
    /\ lastBulk.alone /\ AllReadsDone
    /\ lastBulk.start = INITIAL_SLOTS
    /\ lastBulk.files = <<CPng, APng, BPng>>
    /\ slots[0].image = "C" /\ slots[1].image = "A" /\ slots[2].image = "B"

\* C4: a read completion of a sequential-mode bulk upload never overwrites a
\* filled slot: every slot filled before the completion holds the same image
\* after it.
C4_SequentialNeverOverwrites ==
    [][\A r \in BagToSet(pending) :
          SequentialLoaded(r)
              => \A i \in SlotIndex : HasImage(slots[i]) => slots'[i] = slots[i]]_vars

\* all six slots are filled and further sequential reads have completed
C4_Witness ==
    /\ Filled(slots) = SlotIndex
    /\ AllReadsDone
    /\ used.reads > 6
    /\ \A k \in 1..Len(lastBulk.files) : FaceOfFile[lastBulk.files[k]] = null

\* the square of the canvas onto which export e draws the image of slot i
CellOf(e, i) ==
    LET pos == EXPORT_FORMATS[e.exportFormat].positions[e.slots[i].face]
    IN  <<pos.x, pos.y>>
Blank(canvas) == \A c \in DOMAIN canvas.cells : canvas.cells[c] = null
Before(effects, first, second) ==
    \E a, b \in 1..Len(effects) : a < b /\ effects[a] = first /\ effects[b] = second
DownloadsOf(k) == {n \in 1..Len(downloads) : downloads[n].export = k}

\* C5 (as amended): an export called with no filled slot, when it obtains a
\* drawing context, raises the alert after its canvas has been created and
\* cleared and before any image is set to decode; nothing is drawn on that
\* canvas and nothing is downloaded, in every layout and also after a clear.
C5_EmptyExportAlerts ==
    \A k \in 1..Len(exports) :
        LET e == exports[k]
        IN  Filled(e.slots) = {}
            => /\ e.phase \in {"alerted", "noctx"}
               /\ e.phase = "alerted"
                     => /\ e.effects[Len(e.effects)] = "alert"
                        /\ Before(e.effects, "createCanvas", "alert")
                        /\ Before(e.effects, "clearRect", "alert")
               /\ \A n \in 1..Len(e.effects) : e.effects[n] # "decode"
               /\ e.loading = {} /\ e.failed = {} /\ e.imagesLoaded = 0
               /\ Blank(e.canvas)
               /\ DownloadsOf(k) = {}

\* a slot was filled and cleared, the 2x3 grid chosen, and the export alerted
C5_Witness ==
    /\ used.clears > 0 /\ used.reads > 0 /\ AllReadsDone
    /\ alerts = 1
    /\ \E k \in 1..Len(exports) :
          /\ exports[k].phase = "alerted"
          /\ exports[k].exportFormat = "grid-2x3"

\* C5 as stated: the alert comes before any canvas is allocated.
C5_AlertBeforeCanvas ==
    \A k \in 1..Len(exports) :
        exports[k].phase = "alerted"
            => \A n \in 1..Len(exports[k].effects) :
                  exports[k].effects[n] # "createCanvas"

\* C6: an export reaches its encoding, and its download, only after every
\* slot filled in its snapshot has been decoded and drawn at its position:
\* no image is still loading, none has failed, the count equals the total.
C6_ExportAfterAllDrawn ==
    /\ \A k \in 1..Len(exports) :
          LET e == exports[k]
          IN  e.phase \in {"encoding", "downloaded", "noblob"}
              => /\ e.loading = {} /\ e.failed = {}
                 /\ e.imagesLoaded = e.totalImages
                 /\ \A i \in Filled(e.slots) :
                       e.canvas.cells[CellOf(e, i)] = e.slots[i].image
    /\ \A n \in 1..Len(downloads) :
          LET e == exports[downloads[n].export]
          IN  \A i \in Filled(e.slots) :
                 downloads[n].canvas.cells[CellOf(e, i)] = e.slots[i].image

\* an export of two images has been downloaded
C6_Witness ==
    \E n \in 1..Len(downloads) :
        /\ exports[downloads[n].export].totalImages = 2
        /\ exports[downloads[n].export].phase = "downloaded"

\* C7: once one image of an export has failed to decode, the export never
\* reaches its encoding nor a download: it stays loading, the failure is
\* never taken back, and the count stays below the total.
C7_FailedDecodeStalls ==
    /\ [](\A k \in 1..Len(exports) :
            exports[k].failed # {}
                => /\ exports[k].phase = "loading"
                   /\ exports[k].imagesLoaded < exports[k].totalImages
                   /\ DownloadsOf(k) = {})
    /\ [][\A k \in 1..Len(exports) :
            exports[k].failed \subseteq exports'[k].failed]_vars

\* one image failed, the other was drawn, nothing is left to load
C7_Witness ==
    \E k \in 1..Len(exports) :
        /\ exports[k].failed # {}
        /\ exports[k].loading = {}
        /\ exports[k].imagesLoaded = 1

\* the slot a bulk completion computes as its target, NotFound if none
TargetOf(prev, r) ==
    IF r.kind = "detected"
    THEN IF r.face # null THEN FaceIndex(r.face)
         ELSE IF Filled(prev) = SlotIndex THEN NotFound
              ELSE Min(SlotIndex \ Filled(prev))
    ELSE LET hits == {i \in SlotIndex : ~HasImage(prev[i]) /\ i >= r.index}
         IN  IF hits # {} THEN Min(hits) ELSE r.index
BulkLoaded(r) == DetectedLoaded(r) \/ SequentialLoaded(r)
\* a read of another bulk call is still pending when r completes
Overlapping(r) ==
    \E q \in BagToSet(pending) : q.kind # "single" /\ q.call # r.call

\* C8 (as amended): when bulk uploads overlap, a completion of a file with a
\* detected face writes its face's slot whatever it holds, so the completion
\* resolved last for that slot leaves its image, whatever the order of the
\* calls; a completion of an unclassified file or of a sequential upload
\* writes only an empty slot, a filled slot keeps its image.
C8_OverlappingBulk ==
    [][\A r \in BagToSet(pending) :
          (Overlapping(r) /\ BulkLoaded(r))
              => IF r.kind = "detected" /\ r.face # null
                 THEN /\ slots'[FaceIndex(r.face)].image = r.image
                      /\ \A i \in SlotIndex \ {FaceIndex(r.face)} : slots'[i] = slots[i]
                 ELSE /\ \A i \in Filled(slots) : slots'[i] = slots[i]
                      /\ \A i \in SlotIndex \ Filled(slots) :
                            slots'[i].image = IF i = TargetOf(slots, r)
                                              THEN r.image ELSE null]_vars

\* right.jpg was uploaded while the upload of sky_px.png was pending, and
\* sky_px.png, resolved last, is the image of "right"
C8_Witness ==
    /\ used.singles = 0 /\ used.gestures = 0 /\ used.clears = 0
    /\ lastBulk.files = <<RightJpg>> /\ ~lastBulk.alone
    /\ AllReadsDone
    /\ slots[3].image = "PX"

\* C8 as stated: after a completion of overlapping bulk uploads its target
\* slot holds its image (the completion resolved last wins the slot).
C8_LastCompletionWins ==
    [][\A r \in BagToSet(pending) :
          (Overlapping(r) /\ BulkLoaded(r) /\ TargetOf(slots, r) # NotFound)
              => slots'[TargetOf(slots, r)].image = r.image]_vars

Exchanged(s, t, a, b) ==
    /\ t[a].image = s[b].image /\ t[b].image = s[a].image
    /\ t[a].face = s[a].face /\ t[b].face = s[b].face
    /\ \A i \in SlotIndex \ {a, b} : t[i] = s[i]
\* a drop or a touch release that swaps slot a with slot b
SwapStep(a, b) ==
    \/ draggedIndex = a /\ handleDrop(b, <<>>)
    \/ touchStartIndexRef = a /\ isDraggingTouch /\ handleTouchEnd(b)

\* C9: a swap of two different slots exchanges their two images and nothing
\* else (no image is duplicated or lost, an empty target leaves the source
\* empty), and swapping the same two slots again restores the slots.
C9_SwapExchanges ==
    /\ [][\A a, b \in SlotIndex :
            (a # b /\ SwapStep(a, b)) => Exchanged(slots, slots', a, b)]_vars
    /\ [](\A a, b \in SlotIndex :
            a # b => SwapImages(SwapImages(slots, a, b), a, b) = slots)

\* after one gesture the images detected as right and left have changed
\* places, the third file still unread
C9_Witness ==
    /\ used.gestures = 1 /\ used.singles = 0
    /\ draggedIndex = NullIndex
    /\ slots[3].image = "NX" /\ slots[1].image = "PX"
    /\ Cardinality(Filled(slots)) = 2

\* C10: when the read of a single-slot assignment completes, the slot at its
\* index holds its image, whatever the slot held, and the other five slots
\* and all faces are unchanged.
C10_AssignSingleOverwrites ==
    [][\A r \in BagToSet(pending) :
          SingleLoaded(r)
              => /\ slots'[r.index] = [face |-> slots[r.index].face, image |-> r.image]
                 /\ \A i \in SlotIndex \ {r.index} : slots'[i] = slots[i]]_vars

\* sky_px.png was placed on "right" by a bulk upload and a.png, assigned to
\* that slot, has replaced it
C10_Witness ==
    /\ AllReadsDone
    /\ used.gestures = 0 /\ used.clears = 0
    /\ lastBulk.files = <<SkyPx, SkyNx>>
    /\ slots[3].image = "A" /\ slots[1].image = "NX"

\* C11: clearSlot(i) empties slot i and leaves the other five slots as they
\* are; clearAll leaves every slot empty, the slots being again the initial
\* slot collection.
C11_ClearFrame ==
    [][/\ \A i \in SlotIndex :
            clearSlot(i)
                => /\ slots'[i] = [face |-> slots[i].face, image |-> null]
                   /\ \A j \in SlotIndex \ {i} : slots'[j] = slots[j]
       /\ clearAll => (slots' = INITIAL_SLOTS /\ Filled(slots') = {})]_vars

\* sky_px.png and sky_nx.png were placed by one bulk upload, and one clear
\* has emptied "right" while "left" keeps its image
C11_Witness ==
    /\ used.clears = 1 /\ used.singles = 0 /\ AllReadsDone
    /\ lastBulk.files = <<SkyPx, SkyNx>>
    /\ slots[3].image = null /\ slots[1].image = "NX"

\* the raster of export e as the claim describes it: each filled slot's image
\* in the cell of its face, every other cell transparent
ExpectedCells(e) ==
    LET format == EXPORT_FORMATS[e.exportFormat]
    IN  [c \in (0..(format.width - 1)) \X (0..(format.height - 1)) |->
            IF \E i \in Filled(e.slots) : CellOf(e, i) = c
            THEN e.slots[CHOOSE i \in Filled(e.slots) : CellOf(e, i) = c].image
            ELSE null]
RasterAsClaimed(canvas, e) ==
    /\ canvas.width = EXPORT_FORMATS[e.exportFormat].width * 512
    /\ canvas.height = EXPORT_FORMATS[e.exportFormat].height * 512
    /\ e.exportFormat = "cross" => (canvas.width = 2048 /\ canvas.height = 1536)
    /\ canvas.cells = ExpectedCells(e)

\* C12: in every layout a completed export is a raster of the layout's width
\* and height times 512 (2048 x 1536 for the cross) in which the cell of each
\* filled slot's face holds that slot's image over the whole 512 x 512 cell
\* and every other cell is transparent, whatever the order of the decodes.
C12_ExportRaster ==
    /\ \A k \in 1..Len(exports) :
          exports[k].phase \in {"encoding", "downloaded", "noblob"}
              => RasterAsClaimed(exports[k].canvas, exports[k])
    /\ \A n \in 1..Len(downloads) :
          RasterAsClaimed(downloads[n].canvas, exports[downloads[n].export])

\* a download in the 3x2 grid whose only image is that of "right", in the
\* first cell
C12_Witness ==
    \E n \in 1..Len(downloads) :
        LET e == exports[downloads[n].export]
        IN  /\ e.exportFormat = "grid-3x2"
            /\ Filled(e.slots) = {3}
            /\ downloads[n].canvas.cells[<<0, 0>>] = "PX"
            /\ downloads[n].canvas.width = 1536

\* the name the patterns are tested on, and the patterns that match it
Stripped == RemoveExtension(toLowerCase(filename))
Matching == {k \in 1..Len(patterns) : RegexTest(patterns[k], Stripped)}
Classified == detected # Unclassified

\* C13: each documented pattern string, in small letters, in capitals or with
\* a capital first letter, bare or followed by one extension, classifies to
\* its documented face; photo1 classifies to no face.
C13_DocumentedPatterns ==
    Classified
    => /\ \A f \in CubeFace : \A tok \in DocumentedPatterns[f] :
            \A cased \in CaseVariants(tok) : \A ext \in Extensions :
                filename = cased \o ext => detected = f
       /\ filename \in {Photo1, Photo1Png} => detected = null

\* PX.PNG has been classified as "right"
C13_Witness ==
    /\ filename = <<"P", "X", ".", "P", "N", "G">>
    /\ detected = "right"

\* a spelling of a pattern stands in name between two of the separators
DelimitedBy(name, toks, separators) ==
    \E tok \in toks : \E i \in 1..Len(name) :
        /\ i + Len(tok) - 1 <= Len(name)
        /\ \A n \in 1..Len(tok) : name[i + n - 1] = tok[n]
        /\ (i > 1 => name[i - 1] \in separators)
        /\ (i + Len(tok) <= Len(name) => name[i + Len(tok)] \in separators)
\* the patterns of the families 1 to 3
DelimitedFamilies == {k \in 1..Len(patterns) : patterns[k].delimited}

\* C14 (as amended): a rule of the families 1 to 3 matches only a token that
\* has the start of the name, an underscore, a hyphen or a white-space
\* character (a space, a tab, ...) before it and one of these or the end of
\* the name after it: inbox.png and backup.png classify to no face,
\* my-box_px.png to "right".
C14_BoundaryRule ==
    Classified
    => /\ \A k \in DelimitedFamilies :
            k \in Matching
                => DelimitedBy(Stripped, patterns[k].toks, {"_", "-", " ", "\t"})
       /\ filename \in {InboxPng, BackupPng, ApxPng} => detected = null
       /\ filename = MyBoxPxPng => detected = "right"

\* my-box_px.png has been classified as "right", by the rule of px
C14_Witness ==
    /\ filename = MyBoxPxPng
    /\ detected = "right"
    /\ Min(Matching) \in DelimitedFamilies

\* C14 as stated: the separators are the underscore, the hyphen and the space.
C14_SpaceOnly ==
    Classified
    => \A k \in DelimitedFamilies :
          k \in Matching => DelimitedBy(Stripped, patterns[k].toks, {"_", "-", " "})

\* C20: the face returned is that of the first pattern, in the order of the
\* families, that matches: pos-x.png and positive_x.png classify to "right"
\* by family 1, although pos-x.png also holds the fallback -x of "left".
C20_FirstRuleWins ==
    Classified
    => /\ Matching = {} => detected = null
       /\ \A k \in Matching :
            (\A j \in Matching : k <= j) => detected = patterns[k].face
       /\ filename \in {PosHyphenXPng, PositiveXPng} => detected = "right"

\* pos-x.png is "right" while the fallback pattern of "left" matches it too
C20_Witness ==
    /\ filename = PosHyphenXPng
    /\ detected = "right"
    /\ \E k \in Matching : ~patterns[k].delimited /\ patterns[k].face = "left"

\* C15 as stated: a mouse drag or a touch that begins on a slot without image
\* records no drag source, changes no slot, and no later event of that
\* touch (its moves, its end) swaps any image.
C15_EmptyDragRejected ==
    [][/\ \A i \in SlotIndex :
            (~HasImage(slots[i]) /\ (handleDragStart(i) \/ handleTouchStart(i)))
                => UNCHANGED <<slots, draggedIndex, touchStartIndexRef>>
       /\ (/\ touchGesture = TouchRejected
           /\ (handleTouchMove \/ \E t \in SlotIndex \cup {NotFound} : handleTouchEnd(t)))
                => slots' = slots]_vars

\* a step that is one handleBulkUpload call with the list fl
BulkCall(fl) == BulkInputChange(fl) \/ handleGlobalDrop(fl)
FirstSix(fl) == IF Len(fl) < 6 THEN Len(fl) ELSE 6

\* C16: a bulk upload starts one read for each of the first six files of its
\* list, in the list's order, and none for a later file; all its reads are
\* of detected mode if one of these first six files has a face in its name,
\* else all are sequential; a file beyond the sixth is never placed.
C16_FirstSixOnly ==
    /\ [][\A fl \in fileLists :
            BulkCall(fl)
                => LET started == pending' (-) pending
                       reads == BagToSet(started)
                       mode == IF \E k \in 1..FirstSix(fl) : FaceOfFile[fl[k]] # null
                               THEN "detected" ELSE "sequential"
                   IN  /\ BagCardinality(started) = FirstSix(fl)
                       /\ \A r \in reads : r.kind = mode
                       /\ \A k \in 1..FirstSix(fl) :
                             \E r \in reads :
                                 /\ r.image = fl[k].data
                                 /\ mode = "sequential" => r.index = k - 1
                                 /\ mode = "detected" => r.face = FaceOfFile[fl[k]]
                       /\ \A k \in (FirstSix(fl) + 1)..Len(fl) :
                             \A r \in reads : r.image # fl[k].data]_vars
    /\ []((fileLists = {SevenFiles} /\ used.singles = 0)
            => /\ \A i \in SlotIndex : slots[i].image # SevenFiles[7].data
               /\ \A r \in BagToSet(pending) : r.image # SevenFiles[7].data)

\* the list of seven files was uploaded: its first six files fill the six
\* slots in order, sequentially, though the seventh has a face in its name
C16_Witness ==
    /\ fileLists = {SevenFiles} /\ used.singles = 0
    /\ AllReadsDone
    /\ \A i \in SlotIndex : slots[i].image = SevenFiles[i + 1].data

\* C18: in detected mode, the completion of a file without face puts its
\* image into the empty slot of lowest index and changes no other slot; when
\* all six slots are filled it changes nothing.
C18_UnknownInDetected ==
    [][\A r \in BagToSet(pending) :
          (DetectedLoaded(r) /\ r.face = null)
              => IF Filled(slots) = SlotIndex
                 THEN slots' = slots
                 ELSE LET target == Min(SlotIndex \ Filled(slots))
                      IN  /\ slots'[target] = [face |-> slots[target].face,
                                               image |-> r.image]
                          /\ \A i \in SlotIndex \ {target} : slots'[i] = slots[i]]_vars

\* all six slots are filled, sky_px.png on "right", and the read of a file
\* without face of a detected-mode upload is still to complete
C18_Witness ==
    /\ Filled(slots) = SlotIndex
    /\ slots[3].image = "PX"
    /\ \E r \in BagToSet(pending) : r.kind = "detected" /\ r.face = null

\* C19: in sequential mode, the completion of the file of index i puts its
\* image into the empty slot of lowest index among the slots of index >= i
\* and changes no other slot; when none of these is empty it changes nothing,
\* also when a slot of lower index is empty.
C19_SequentialFromIndex ==
    [][\A r \in BagToSet(pending) :
          SequentialLoaded(r)
              => LET from == {i \in SlotIndex \ Filled(slots) : i >= r.index}
                 IN  IF from = {}
                     THEN slots' = slots
                     ELSE /\ slots'[Min(from)] = [face |-> slots[Min(from)].face,
                                                  image |-> r.image]
                          /\ \A i \in SlotIndex \ {Min(from)} : slots'[i] = slots[i]]_vars

\* the sixth file of a sequential upload is still to complete while the last
\* slot is filled and the first is empty
C19_Witness ==
    \E r \in BagToSet(pending) :
        /\ r.kind = "sequential" /\ r.index = 5
        /\ HasImage(slots[5])
        /\ ~HasImage(slots[0])

\* a layout gives each of the six faces a cell of its grid, each its own
LayoutTotalInjective(format) ==
    /\ DOMAIN format.positions = CubeFace
    /\ \A f \in CubeFace :
          /\ 0 <= format.positions[f].x /\ format.positions[f].x < format.width
          /\ 0 <= format.positions[f].y /\ format.positions[f].y < format.height
    /\ \A f, g \in CubeFace :
          format.positions[f] = format.positions[g] => f = g

\* C17: the registered layouts are the six named ones, and each of them, the
\* selected one included, maps the six faces to six different cells, every
\* cell with 0 <= x < width and 0 <= y < height.
C17_LayoutsInjective ==
    /\ DOMAIN EXPORT_FORMATS = {"cross", "cross-vertical", "strip-horizontal",
                                "strip-vertical", "grid-3x2", "grid-2x3"}
    /\ exportFormat \in DOMAIN EXPORT_FORMATS
    /\ LayoutTotalInjective(EXPORT_FORMATS[exportFormat])
    /\ \A k \in DOMAIN EXPORT_FORMATS : LayoutTotalInjective(EXPORT_FORMATS[k])

\* the vertical cross has been selected and an export made in it
C17_Witness ==
    /\ exportFormat = "cross-vertical"
    /\ \E k \in 1..Len(exports) :
          /\ exports[k].exportFormat = "cross-vertical"
          /\ exports[k].phase = "downloaded"

\* the slots of export e whose image has been drawn
Drawn(e) == Filled(e.slots) \ (e.loading \cup e.failed)

\* C21: an export works on the slots and the layout of the moment it was
\* called: it counts the slots filled then and sets exactly these to decode,
\* no later step (swap, assignment, clear, layout selection) changes what it
\* holds, every cell it draws has the image the slot had at the call, and its
\* download is the raster of these slots under the name of that layout.
C21_ExportSnapshot ==
    /\ [][/\ exportCubemap
              => LET e == exports'[Len(exports')]
                 IN  /\ Len(exports') = Len(exports) + 1
                     /\ e.slots = slots /\ e.exportFormat = exportFormat
                     /\ e.totalImages = Cardinality(Filled(slots))
                     /\ e.phase = "loading" => e.loading = Filled(slots)
          /\ \A k \in 1..Len(exports) :
                /\ exports'[k].slots = exports[k].slots
                /\ exports'[k].exportFormat = exports[k].exportFormat
                /\ exports'[k].totalImages = exports[k].totalImages]_vars
    /\ [](\A k \in 1..Len(exports) :
            LET e == exports[k]
            IN  /\ e.loading \cup e.failed \subseteq Filled(e.slots)
                /\ e.phase \in {"loading", "encoding", "downloaded", "noblob"}
                      => e.imagesLoaded = Cardinality(Drawn(e))
                /\ \A c \in DOMAIN e.canvas.cells :
                      e.canvas.cells[c] =
                          IF \E i \in Drawn(e) : CellOf(e, i) = c /\ e.phase # "alerted"
                                                                  /\ e.phase # "noctx"
                          THEN ExpectedCells(e)[c] ELSE null)
    /\ [](\A n \in 1..Len(downloads) :
            LET e == exports[downloads[n].export]
            IN  /\ downloads[n].canvas.cells = ExpectedCells(e)
                /\ downloads[n].download = <<"cubemap-", e.exportFormat, ".png">>)

\* an export of the cross with one image was started, then another layout
\* was selected and the slots cleared: the image has been drawn from the
\* export's own slots and the encoding is under way
C21_Witness ==
    /\ used.clears = 1 /\ used.selects = 1
    /\ slots = INITIAL_SLOTS /\ exportFormat = "grid-3x2"
    /\ \E k \in 1..Len(exports) :
          LET e == exports[k]
          IN  /\ e.phase = "encoding" /\ e.exportFormat = "cross"
              /\ Filled(e.slots) = {3}
              /\ e.canvas.cells[<<2, 1>>] = "PX"

\* a step that is the completion of the read r
ReadLoaded(r) == SingleLoaded(r) \/ DetectedLoaded(r) \/ SequentialLoaded(r)
\* the slots after the image of r is put into slot target
WithImage(prev, target, r) ==
    [i \in SlotIndex |->
        IF i = target THEN [face |-> prev[i].face, image |-> r.image] ELSE prev[i]]

\* C22: clearSlot and clearAll leave every outstanding read outstanding; a
\* read of an earlier assignment that completes after a clear acts on the
\* slots as the clear left them, by the rule of its mode: a single read
\* writes its slot, a file with a face its face's slot, a file without face
\* the lowest empty slot, a sequential file the lowest empty slot from its
\* index on.  After clearAll these are empty slots, which so become filled.
C22_ClearKeepsReads ==
    [][/\ (clearAll \/ \E i \in SlotIndex : clearSlot(i)) => pending' = pending
       /\ \A r \in BagToSet(pending) :
            (ReadLoaded(r) /\ used.clears > 0)
                => /\ pending' = pending (-) SetToBag({r})
                   /\ slots' =
                        CASE r.kind = "single" -> WithImage(slots, r.index, r)
                          [] r.kind = "detected" /\ r.face # null ->
                                WithImage(slots, FaceIndex(r.face), r)
                          [] r.kind = "detected" /\ r.face = null ->
                                IF Filled(slots) = SlotIndex THEN slots
                                ELSE WithImage(slots, Min(SlotIndex \ Filled(slots)), r)
                          [] r.kind = "sequential" ->
                                LET from == {i \in SlotIndex \ Filled(slots) : i >= r.index}
                                IN  IF from = {} THEN slots
                                    ELSE WithImage(slots, Min(from), r)]_vars

\* a.png was handed over alone, its only upload; clearAll came while it was
\* being read (a clearSlot needs a filled slot), and its image is in "top"
C22_Witness ==
    /\ used.reads = 1 /\ used.singles = 0 /\ used.clears = 1
    /\ lastBulk.files = <<APng>> /\ ~lastBulk.alone
    /\ AllReadsDone
    /\ slots[0].image = "A"

\* the slots after the completion of r and then of q, both of detected mode
ThenLoaded(prev, r, q) ==
    PlaceDetected(PlaceDetected(prev, r.face, r.image), q.face, q.image)
\* the files of a list whose image is in none of the slots
Absent(files, s) ==
    {k \in 1..Len(files) : \A i \in SlotIndex : s[i].image # files[k].data}

\* C23: in detected mode the order of completions decides the outcome.  While
\* a file without face and a file with face F are both being read and F's
\* slot is the lowest empty slot, the file without face completing first
\* takes F's slot and loses it to the other file (one slot filled, its image
\* gone), whereas completing second it takes the next empty slot (two slots
\* filled).  So after an upload of k files with distinct faces, alone and into
\* empty slots, the filled slots number k less the files without face whose
\* image was overwritten, which can be less than k.
C23_DetectedOrderMatters ==
    /\ \A r, q \in BagToSet(pending) :
          (/\ r.kind = "detected" /\ q.kind = "detected" /\ r.call = q.call
           /\ r.face = null /\ q.face # null
           /\ Filled(slots) # SlotIndex
           /\ Min(SlotIndex \ Filled(slots)) = FaceIndex(q.face))
          => LET t == FaceIndex(q.face)
                 rq == ThenLoaded(slots, r, q)
                 qr == ThenLoaded(slots, q, r)
                 rest == SlotIndex \ (Filled(slots) \cup {t})
             IN  /\ PlaceDetected(slots, r.face, r.image)[t].image = r.image
                 /\ rq = WithImage(slots, t, q)
                 /\ rest # {} => /\ qr = WithImage(WithImage(slots, t, q), Min(rest), r)
                                 /\ Cardinality(Filled(qr)) = Cardinality(Filled(rq)) + 1
    /\ (/\ lastBulk.alone /\ AllReadsDone
        /\ hasDetectedFaces(lastBulk.files)
        /\ lastBulk.start = INITIAL_SLOTS
        /\ \A j, k \in 1..Len(lastBulk.files) :
              (j # k /\ FaceOfFile[lastBulk.files[j]] # null)
                  => FaceOfFile[lastBulk.files[j]] # FaceOfFile[lastBulk.files[k]])
       => /\ Cardinality(Filled(slots)) =
                Len(lastBulk.files) - Cardinality(Absent(lastBulk.files, slots))
          /\ \A k \in Absent(lastBulk.files, slots) : FaceOfFile[lastBulk.files[k]] = null

\* a.png and sky_py.png were uploaded together into empty slots: a.png was
\* read first and took "top", sky_py.png then replaced it; one slot is filled
C23_Witness ==
    /\ lastBulk.alone /\ AllReadsDone
    /\ lastBulk.start = INITIAL_SLOTS
    /\ lastBulk.files = <<APng, SkyPy>>
    /\ Filled(slots) = {0} /\ slots[0].image = "PY"

\* the n lowest empty slots of s (all of them, when there are fewer)
LowestEmpty(s, n) ==
    {e \in SlotIndex \ Filled(s) :
        Cardinality({d \in SlotIndex \ Filled(s) : d < e}) < n}
\* the slots after the reads of a sequential upload complete in list order,
\* from the k-th file on
RECURSIVE InListOrder(_, _, _)
InListOrder(prev, files, k) ==
    IF k > Len(files) THEN prev
    ELSE InListOrder(PlaceSequential(prev, k - 1, files[k].data), files, k + 1)
\* the latest bulk upload was sequential, ran alone, and all is read
SequentialAloneDone ==
    /\ lastBulk.alone /\ AllReadsDone
    /\ Len(lastBulk.files) > 0
    /\ ~hasDetectedFaces(lastBulk.files)

\* C24: after a sequential upload of n files that ran alone, from whatever
\* slots it started with, the filled slots are those filled at the start
\* and the n lowest slots empty at the start (all of them if fewer): the
\* same set under every order of completions, that of the list order
\* included.  The slots filled at the start keep their images.
C24_SequentialSameSet ==
    SequentialAloneDone
    => /\ Filled(slots) =
             Filled(lastBulk.start) \cup LowestEmpty(lastBulk.start, Len(lastBulk.files))
       /\ Filled(slots) = Filled(InListOrder(lastBulk.start, lastBulk.files, 1))
       /\ \A i \in Filled(lastBulk.start) : slots[i] = lastBulk.start[i]
       /\ \A i \in Filled(slots) \ Filled(lastBulk.start) :
             \E k \in 1..Len(lastBulk.files) : slots[i].image = lastBulk.files[k].data

\* "top" held an image when six files without face were uploaded: the sixth
\* was read first and is in "bottom", the first found no empty slot; in list
\* order the first is placed and the sixth dropped, the filled slots the same
C24_Witness ==
    /\ SequentialAloneDone
    /\ Len(lastBulk.files) = 6
    /\ Filled(lastBulk.start) = {0}
    /\ slots[5].image = lastBulk.files[6].data
    /\ 1 \in Absent(lastBulk.files, slots)
    /\ LET listed == InListOrder(lastBulk.start, lastBulk.files, 1)
       IN  /\ Filled(listed) = Filled(slots)
           /\ listed # slots
           /\ Absent(lastBulk.files, listed) = {6}

\* export k has called canvas.toBlob
Encoding(k) ==
    /\ Len(exports) >= k
    /\ exports[k].phase \in {"encoding", "downloaded", "noblob"}
\* no image of export k ever fails to decode
NeverFails(k) == [](Len(exports) >= k => exports[k].failed = {})

====
